---- MODULE Spec2Model ----
(***************************************************************************)
(* A model of rdisk_shared (src/src/lib.rs): the AsByteSlice byte views of *)
(* the fixed-width integers and of slices / Vecs of them, the null-safe    *)
(* pointer accessors, and StructBuffer<T>, a Vec<u8> that is read and      *)
(* written as a value of T followed by an optional extension.              *)
(*                                                                         *)
(* Memory is modelled at the byte level: a value of T and its bytes are    *)
(* different things, related by Encode / Decode (the target's byte order). *)
(* usize arithmetic keeps its width (modulo 2^UsizeBits); what a build     *)
(* does on overflow and on a misaligned dereference depends on the build   *)
(* profile, which is part of the state.                                    *)
(***************************************************************************)
EXTENDS Integers, Sequences, FiniteSets, TLC

\* ------------------------------------------------------------------ bounds
\* Bytes range over 0 .. MaxByte (instead of 0 .. 255).
MaxByte == 1
\* Extension sizes asked for range over 0 .. MaxExt and over the MaxExt + 1
\* largest values of usize.
MaxExt == 1

\* ------------------------------------------------------ target and types
\* The width of usize. A 16-bit target (msp430, avr) keeps the numbers small;
\* nothing below depends on the width beyond usize::MAX and isize::MAX.
UsizeBits == 16

RECURSIVE Pow2(_)
Pow2(n) == IF n = 0 THEN 1 ELSE 2 * Pow2(n - 1)

UsizeMax == Pow2(UsizeBits) - 1
IsizeMax == Pow2(UsizeBits - 1) - 1

Byte == 0 .. MaxByte

\* The build profile: "debug" has overflow checks and debug assertions,
\* "release" has neither.
Profiles == {"debug", "release"}
\* The target's byte order (x86, the usual targets: least significant first).
endian == "little"

\* The record types T a StructBuffer is instantiated with: the packed
\* struct S { byte: u8, word: u16 } of the tests, and u16 (align 2).
Types == {"S", "u16"}

\* core::mem::size_of::<T>()
size_of(t) == IF t = "S" THEN 3 ELSE 2
\* core::mem::align_of::<T>(); align_of::<u8>() is 1
align_of(t) == IF t = "S" THEN 1 ELSE 2
\* align_of::<u8>(): the alignment a Vec<u8> asks its allocator for.
align_of_u8 == 1

\* The fields of T: name, offset, size.
Fields(t) ==
    IF t = "S"
    THEN << [name |-> "byte", off |-> 0, size |-> 1],
            [name |-> "word", off |-> 1, size |-> 2] >>
    ELSE << [name |-> "word", off |-> 0, size |-> 2] >>

FieldNames(t) == { Fields(t)[i].name : i \in 1 .. Len(Fields(t)) }

\* ------------------------------------------------------- bytes and values
Reverse(s) == [ i \in 1 .. Len(s) |-> s[Len(s) + 1 - i] ]

\* The n bytes of integer v in two's complement, least significant first.
RECURSIVE ToBytesLE(_, _)
ToBytesLE(v, n) ==
    IF n = 0 THEN << >> ELSE << v % 256 >> \o ToBytesLE(v \div 256, n - 1)

ToBytes(v, n, e) == IF e = "little" THEN ToBytesLE(v, n) ELSE Reverse(ToBytesLE(v, n))

\* The unsigned integer a byte sequence holds, least significant first.
RECURSIVE FromBytesLE(_)
FromBytesLE(bs) ==
    IF bs = << >> THEN 0 ELSE Head(bs) + 256 * FromBytesLE(Tail(bs))

FromBytes(bs, e) == IF e = "little" THEN FromBytesLE(bs) ELSE FromBytesLE(Reverse(bs))

\* The bytes of field f within the size_of(T) bytes bs of a T.
FieldBytes(f, bs) == SubSeq(bs, f.off + 1, f.off + f.size)

FieldOf(t, n) == CHOOSE g \in { Fields(t)[i] : i \in 1 .. Len(Fields(t)) } : g.name = n

\* Reading size_of(T) bytes as a T: each field from its own bytes.
Decode(t, bs, e) ==
    [ n \in FieldNames(t) |-> FromBytes(FieldBytes(FieldOf(t, n), bs), e) ]

\* Storing a T: the bytes of its fields, one field after the other (neither
\* type has padding).
RECURSIVE EncodeFields(_, _, _)
EncodeFields(fs, v, e) ==
    IF fs = << >> THEN << >>
    ELSE ToBytes(v[Head(fs).name], Head(fs).size, e) \o EncodeFields(Tail(fs), v, e)

Encode(t, v, e) == EncodeFields(Fields(t), v, e)

ByteSeqs(n) == [ 1 .. n -> Byte ]

\* The values of T whose bytes are all in Byte.
Values(t, e) == { Decode(t, bs, e) : bs \in ByteSeqs(size_of(t)) }

NoValue == [ set |-> FALSE, val |-> 0 ]
Some(v) == [ set |-> TRUE, val |-> v ]
Unit == [ unit |-> TRUE ]
Panic(msg) == [ panic |-> msg ]

\* ------------------------------------------------------------------ state
VARIABLES
    T,        \* the type the buffer is instantiated with
    profile,  \* the build profile
    status,   \* "none": no buffer yet; "live": a StructBuffer<T>; "taken": the
              \* buffer was consumed by take(); "panicked": a call panicked
              \* or faulted
    buffer,   \* StructBuffer::buffer, the bytes of the Vec<u8>
    base,     \* buffer.as_ptr(), the address the allocation starts at
    ctor,     \* the constructor call that made the buffer
    last,     \* the last call: its name, its argument, what it returned
    \* ---- the integer byte views
    X,        \* the integer type
    elems,    \* the elements of the value / slice / Vec
    holder,   \* "value", "slice" or "vec"
    ptr,      \* as_ptr() of the data
    mem,      \* the bytes stored from ptr on
    view,     \* what as_byte_slice() returned
    sptr      \* what safe_ptr() returned

bvars == << T, profile, status, buffer, base, ctor, last >>
ivars == << X, elems, holder, ptr, mem, view, sptr >>
vars == << T, profile, status, buffer, base, ctor, last,
           X, elems, holder, ptr, mem, view, sptr >>

\* ------------------------------------------------------- usize and Vec<u8>
\* a + b on usize: with overflow checks an overflow panics, without them the
\* sum wraps.
usize_add(a, b, p) ==
    IF a + b <= UsizeMax THEN [ ok |-> TRUE, val |-> a + b ]
    ELSE IF p = "debug" THEN [ ok |-> FALSE, val |-> 0 ]
    ELSE [ ok |-> TRUE, val |-> (a + b) % Pow2(UsizeBits) ]

\* The addresses the allocator may return for bytes: any multiple of
\* align_of::<u8>(), never null. An odd and an even one stand for them.
AllocAddrs == { align_of_u8, 2 * align_of_u8 }

\* The pointer of a Vec<u8> of capacity n: a Vec of capacity 0 allocates
\* nothing and dangles at align_of::<u8>().
VecAddrs(n) == IF n = 0 THEN { align_of_u8 } ELSE AllocAddrs

\* alloc_buffer(size): Vec::with_capacity(size) panics ("capacity overflow")
\* above isize::MAX; set_len(size) then exposes size bytes nobody wrote.
alloc_buffer(size) ==
    IF size > IsizeMax THEN [ ok |-> FALSE, contents |-> {} ]
    ELSE [ ok |-> TRUE, contents |-> ByteSeqs(size) ]

\* vec![0_u8; n]
zero_vec(n) == [ i \in 1 .. n |-> 0 ]

\* The extension sizes callers ask for.
ExtSizes == (0 .. MaxExt) \cup { UsizeMax - k : k \in 0 .. MaxExt } \cup { IsizeMax }

\* The byte vectors callers hand to with_buffer.
SuppliedBuffers(t) == UNION { ByteSeqs(n) : n \in 0 .. size_of(t) + MaxExt }

\* No buffer has been constructed.
NoBuffer ==
    /\ status = "none"
    /\ buffer = << >>
    /\ base = 0
    /\ ctor = [ name |-> "none", ext |-> 0 ]
    /\ last = [ op |-> "none", arg |-> Unit, ret |-> Unit ]

Init ==
    /\ T \in Types
    /\ profile \in Profiles
    /\ NoBuffer
    /\ X = "u8" /\ elems = << >> /\ holder = "vec" /\ ptr = 1
    /\ mem = << >> /\ view = NoValue /\ sptr = NoValue

\* A call that panics: the stack unwinds and the buffer, if any, is dropped.
Panicked(op, arg, msg) ==
    /\ status' = "panicked"
    /\ buffer' = << >>
    /\ base' = 0
    /\ last' = [ op |-> op, arg |-> arg, ret |-> Panic(msg) ]
    /\ UNCHANGED << T, profile, ctor >>

\* A constructor returns Self { buffer, _marker }.
Constructed(name, ext, arg, bytes, addr) ==
    /\ status' = "live"
    /\ buffer' = bytes
    /\ base' = addr
    /\ ctor' = [ name |-> name, ext |-> ext ]
    /\ last' = [ op |-> name, arg |-> arg, ret |-> Unit ]
    /\ UNCHANGED << T, profile >>

\* StructBuffer::new()
New ==
    /\ status = "none"
    /\ LET a == alloc_buffer(size_of(T))
       IN  IF ~a.ok
           THEN Panicked("new", Unit, "capacity overflow")
           ELSE \E bytes \in a.contents, addr \in VecAddrs(size_of(T)) :
                    Constructed("new", 0, Unit, bytes, addr)
    /\ UNCHANGED ivars

\* The size with_ext asks alloc_buffer for: size_of::<T>() + ext_size.
with_ext_size(t, ext_size, p) == usize_add(size_of(t), ext_size, p)

\* StructBuffer::with_ext(ext_size)
WithExt ==
    /\ status = "none"
    /\ \E ext_size \in ExtSizes :
         LET sum == with_ext_size(T, ext_size, profile)
             a == alloc_buffer(sum.val)
         IN  IF ~sum.ok
             THEN Panicked("with_ext", ext_size, "attempt to add with overflow")
             ELSE IF ~a.ok
             THEN Panicked("with_ext", ext_size, "capacity overflow")
             ELSE \E bytes \in a.contents, addr \in VecAddrs(sum.val) :
                      Constructed("with_ext", ext_size, ext_size, bytes, addr)
    /\ UNCHANGED ivars

\* The check with the comparison off by one: a buffer of exactly
\* size_of(T) bytes is refused.
insufficient_le(len, t) == len <= size_of(t)

\* The check with_buffer makes before it wraps the buffer.
insufficient(len, t) == len < size_of(t)

\* StructBuffer::with_buffer(buffer)
WithBuffer ==
    /\ status = "none"
    /\ \E bytes \in SuppliedBuffers(T), addr \in AllocAddrs :
         IF insufficient(Len(bytes), T)
         THEN Panicked("with_buffer", bytes, "Insufficient buffer size!")
         ELSE Constructed("with_buffer", 0, bytes, bytes, addr)
    /\ UNCHANGED ivars

\* StructBuffer::zeroed()
Zeroed ==
    /\ status = "none"
    /\ \E addr \in VecAddrs(size_of(T)) :
         Constructed("zeroed", 0, Unit, zero_vec(size_of(T)), addr)
    /\ UNCHANGED ivars

\* ------------------------------------------------- the views of the buffer
\* A call that returns and leaves the buffer as it is.
Returned(op, arg, ret) ==
    /\ last' = [ op |-> op, arg |-> arg, ret |-> ret ]
    /\ UNCHANGED << T, profile, status, buffer, base, ctor >>

\* A call that returns after it wrote the buffer.
Wrote(op, arg, bytes) ==
    /\ buffer' = bytes
    /\ last' = [ op |-> op, arg |-> arg, ret |-> Unit ]
    /\ UNCHANGED << T, profile, status, base, ctor >>

\* The byte count with the element size left out.
byte_size_count(len, elem_size) == len

\* The number of bytes of a slice or Vec of len elements of elem_size bytes.
byte_size(len, elem_size) == len * elem_size

\* core::slice::from_raw_parts(p, n) on memory m that starts at p.
from_raw_parts(m, n) == SubSeq(m, 1, n)

\* StructBuffer::len()
len(b) == Len(b)

\* StructBuffer::buffer()
buffer_view(b) == b

\* <StructBuffer as AsByteSlice>::as_byte_slice(): that of Vec<u8>
as_byte_slice(b) == from_raw_parts(b, byte_size(Len(b), 1))

\* Whether &self.buffer[size_of::<T>()..] is in range.
ext_in_range(b, t) == size_of(t) <= Len(b)

\* StructBuffer::ext_buffer(), where in range
ext_buffer(b, t) == SubSeq(b, size_of(t) + 1, Len(b))

\* StructBuffer::has_ext_buffer(), where ext_buffer() is in range
has_ext_buffer(b, t) == ~(ext_buffer(b, t) = << >>)

\* Whether the buffer's pointer is aligned for T.
aligned(addr, t) == addr % align_of(t) = 0

\* Dereferencing buffer.as_ptr() as *const T where the pointer is misaligned
\* is undefined: a build with debug assertions panics ("misaligned pointer
\* dereference"), another build either goes on (the target allows the
\* access) or faults.
deref_outcomes(addr, t, p) ==
    IF aligned(addr, t) THEN { "ok" }
    ELSE IF p = "debug" THEN { "panic" }
    ELSE { "ok", "fault" }

DerefFailed(op, o) ==
    Panicked(op, Unit, IF o = "panic" THEN "misaligned pointer dereference"
                       ELSE "misaligned access fault")

\* The bytes *(buffer.as_ptr() as *const T) reads: where the buffer is
\* shorter than T the rest is whatever lies behind the allocation.
raw_bytes(b, t) ==
    IF Len(b) >= size_of(t) THEN { SubSeq(b, 1, size_of(t)) }
    ELSE { b \o tail : tail \in ByteSeqs(size_of(t) - Len(b)) }

\* The extension write with the index taken from the start of the buffer.
ext_write_from_start(b, t, i, x) == [ b EXCEPT ![i + 1] = x ]

\* Writing bytes at offset off (0-based) through a pointer into the buffer:
\* what falls behind the allocation does not land in the buffer.
write_at(b, off, bytes) ==
    [ i \in 1 .. Len(b) |->
        IF off < i /\ i <= off + Len(bytes) THEN bytes[i - off] ELSE b[i] ]

Len_ ==
    /\ status = "live"
    /\ Returned("len", Unit, len(buffer))
    /\ UNCHANGED ivars

\* raw(), and Deref: a read of the T.
Raw ==
    /\ status = "live"
    /\ \E o \in deref_outcomes(base, T, profile) :
         IF o # "ok"
         THEN DerefFailed("raw", o)
         ELSE \E bs \in raw_bytes(buffer, T) :
                  Returned("raw", Unit, Decode(T, bs, endian))
    /\ UNCHANGED ivars

\* *buffer.raw_mut() = v, and DerefMut
RawMut ==
    /\ status = "live"
    /\ \E v \in Values(T, endian), o \in deref_outcomes(base, T, profile) :
         IF o # "ok"
         THEN DerefFailed("raw_mut", o)
         ELSE Wrote("raw_mut", v, write_at(buffer, 0, Encode(T, v, endian)))
    /\ UNCHANGED ivars

Buffer ==
    /\ status = "live"
    /\ Returned("buffer", Unit, buffer_view(buffer))
    /\ UNCHANGED ivars

AsByteSlice ==
    /\ status = "live"
    /\ Returned("as_byte_slice", Unit, as_byte_slice(buffer))
    /\ UNCHANGED ivars

\* buffer.as_byte_slice_mut()[i] = x
AsByteSliceMut ==
    /\ status = "live"
    /\ \E i \in 0 .. byte_size(Len(buffer), 1) - 1, x \in Byte :
         Wrote("as_byte_slice_mut", Unit, write_at(buffer, i, << x >>))
    /\ UNCHANGED ivars

ExtBuffer ==
    /\ status = "live"
    /\ IF ext_in_range(buffer, T)
       THEN Returned("ext_buffer", Unit, ext_buffer(buffer, T))
       ELSE Panicked("ext_buffer", Unit, "range start index out of range")
    /\ UNCHANGED ivars

\* ext_buffer_mut(): the view itself
ExtBufferMut ==
    /\ status = "live"
    /\ IF ext_in_range(buffer, T)
       THEN Returned("ext_buffer_mut", Unit, ext_buffer(buffer, T))
       ELSE Panicked("ext_buffer_mut", Unit, "range start index out of range")
    /\ UNCHANGED ivars

\* buffer.ext_buffer_mut()[i] = x
ext_write(b, t, i, x) == write_at(b, size_of(t) + i, << x >>)

ExtBufferMutWrite ==
    /\ status = "live"
    /\ ext_in_range(buffer, T)
    /\ \E i \in 0 .. Len(ext_buffer(buffer, T)) - 1, x \in Byte :
         Wrote("ext_buffer_mut_write", Unit, ext_write(buffer, T, i, x))
    /\ UNCHANGED ivars

HasExtBuffer ==
    /\ status = "live"
    /\ IF ext_in_range(buffer, T)
       THEN Returned("has_ext_buffer", Unit, has_ext_buffer(buffer, T))
       ELSE Panicked("has_ext_buffer", Unit, "range start index out of range")
    /\ UNCHANGED ivars

\* copy(): *self.raw(), a T of its own
Copy ==
    /\ status = "live"
    /\ \E o \in deref_outcomes(base, T, profile) :
         IF o # "ok"
         THEN DerefFailed("copy", o)
         ELSE \E bs \in raw_bytes(buffer, T) :
                  Returned("copy", Unit, Decode(T, bs, endian))
    /\ UNCHANGED ivars

\* take(self): *self.raw(); the buffer is dropped
Take ==
    /\ status = "live"
    /\ \E o \in deref_outcomes(base, T, profile) :
         IF o # "ok"
         THEN DerefFailed("take", o)
         ELSE \E bs \in raw_bytes(buffer, T) :
                  /\ last' = [ op |-> "take", arg |-> Unit, ret |-> Decode(T, bs, endian) ]
                  /\ status' = "taken"
                  /\ buffer' = << >>
                  /\ base' = 0
                  /\ UNCHANGED << T, profile, ctor >>
    /\ UNCHANGED ivars

Next ==
    \/ New \/ WithExt \/ WithBuffer \/ Zeroed
    \/ Len_ \/ Raw \/ RawMut
    \/ Buffer \/ AsByteSlice \/ AsByteSliceMut
    \/ ExtBuffer \/ ExtBufferMut \/ ExtBufferMutWrite \/ HasExtBuffer
    \/ Copy \/ Take

Spec == Init /\ [][Next]_vars

\* ------------------------------------------- the integer byte views
\* The types impl_int! is invoked for.
IntTypes == { "u8", "u16", "u32", "u64", "i8", "i16", "i32", "i64" }

\* core::mem::size_of::<$name>(), which is also its alignment
int_size(x) ==
    CASE x \in { "u8", "i8" } -> 1
      [] x \in { "u16", "i16" } -> 2
      [] x \in { "u32", "i32" } -> 4
      [] x \in { "u64", "i64" } -> 8

signed(x) == x \in { "i8", "i16", "i32", "i64" }

\* The elements used: 0 .. MaxElem, 255, 256 where the type is wide enough,
\* and -1 where it is signed.
MaxElem == 1
IntValues(x) ==
    (0 .. MaxElem) \cup (IF signed(x) THEN { -1 } ELSE { 255 })
                  \cup (IF int_size(x) >= 2 THEN { 256 } ELSE { })

\* The number of elements of the slices and Vecs used: 0 .. MaxN.
MaxN == 2

\* The integer of type x that its bytes hold (two's complement).
RECURSIVE IntFromLE(_, _)
IntFromLE(bs, sgn) ==
    IF bs = << >> THEN 0
    ELSE IF Len(bs) = 1
    THEN (IF sgn /\ Head(bs) >= 128 THEN Head(bs) - 256 ELSE Head(bs))
    ELSE Head(bs) + 256 * IntFromLE(Tail(bs), sgn)

IntFromBytes(bs, x, e) ==
    IF e = "little" THEN IntFromLE(bs, signed(x)) ELSE IntFromLE(Reverse(bs), signed(x))

\* How the elements lie in memory: one after the other, int_size(x) bytes each.
RECURSIVE Store(_, _, _)
Store(es, x, e) ==
    IF es = << >> THEN << >>
    ELSE ToBytes(Head(es), int_size(x), e) \o Store(Tail(es), x, e)

\* as_ptr() of a slice or Vec: where its elements lie, and a dangling,
\* aligned, non-null address when it has none.
DataAddrs(x, n) ==
    IF n = 0 THEN { int_size(x) } ELSE { int_size(x), 2 * int_size(x) }

InitInt ==
    /\ T = "S" /\ profile = "release"
    /\ NoBuffer
    /\ X \in IntTypes
    /\ holder \in { "value", "slice", "vec" }
    /\ elems \in UNION { [ 1 .. n -> IntValues(X) ] : n \in 0 .. MaxN }
    /\ holder = "value" => Len(elems) = 1
    /\ ptr \in DataAddrs(X, Len(elems))
    /\ mem = Store(elems, X, endian)
    /\ view = NoValue
    /\ sptr = NoValue

\* as_byte_slice() / as_byte_slice_mut() of a $name: size_of::<$name>() bytes
\* from the address of the value.
int_byte_slice(m, x) == from_raw_parts(m, int_size(x))

\* as_byte_slice() / as_byte_slice_mut() of a [$name] or a Vec<$name>
seq_byte_slice(m, n, x) == from_raw_parts(m, byte_size(n, int_size(x)))

\* safe_ptr() / safe_mut_ptr(): null for an empty slice, as_ptr() otherwise
safe_ptr(n, p) == IF n = 0 THEN 0 ELSE p

IntAsByteSlice ==
    /\ holder = "value"
    /\ view' = Some(int_byte_slice(mem, X))
    /\ UNCHANGED << X, elems, holder, ptr, mem, sptr >>
    /\ UNCHANGED bvars

SeqAsByteSlice ==
    /\ holder \in { "slice", "vec" }
    /\ view' = Some(seq_byte_slice(mem, Len(elems), X))
    /\ UNCHANGED << X, elems, holder, ptr, mem, sptr >>
    /\ UNCHANGED bvars

\* view[i] = b through as_byte_slice_mut(): the bytes in memory change and
\* with them the elements. The byte written here is the first one of an
\* element (its least significant one), which keeps the elements small.
IntAsByteSliceMut ==
    /\ \E k \in 1 .. Len(elems), o \in { 0 }, b \in Byte :
         LET n == IF holder = "value" THEN Len(int_byte_slice(mem, X))
                  ELSE Len(seq_byte_slice(mem, Len(elems), X))
             i == (k - 1) * int_size(X) + o + 1
             m2 == [ mem EXCEPT ![i] = b ]
         IN  /\ o < int_size(X)
             /\ i <= n
             /\ mem' = m2
             /\ elems' = [ j \in 1 .. Len(elems) |->
                   IntFromBytes(SubSeq(m2, (j - 1) * int_size(X) + 1, j * int_size(X)),
                                X, endian) ]
    /\ view' = NoValue
    /\ UNCHANGED << X, holder, ptr, sptr >>
    /\ UNCHANGED bvars

SafePtr ==
    /\ holder \in { "slice", "vec" }
    /\ sptr' = Some(safe_ptr(Len(elems), ptr))
    /\ UNCHANGED << X, elems, holder, ptr, mem, view >>
    /\ UNCHANGED bvars

NextInt == IntAsByteSlice \/ SeqAsByteSlice \/ IntAsByteSliceMut \/ SafePtr

SpecInt == InitInt /\ [][NextInt]_vars

\* ======================================================================
\* The claims
\* ======================================================================
Live == status = "live"

\* The record region of the buffer, seen through its byte view.
RecordRegion(b) == SubSeq(as_byte_slice(b), 1, size_of(T))

\* C1: every buffer a constructor returned has length() >= size_of(T),
\* whatever was read or written since; a request that cannot be met fails.
C1_LengthAtLeastSize == Live => len(buffer) >= size_of(T)

\* C2: with_buffer(bytes) panics with "Insufficient buffer size!" and makes
\* no buffer when len(bytes) < size_of(T); otherwise it succeeds, length()
\* is len(bytes) and the byte view is bytes, unchanged.
C2_FromBuffer ==
    last.op = "with_buffer" =>
        IF Len(last.arg) < size_of(T)
        THEN status = "panicked" /\ last.ret = Panic("Insufficient buffer size!")
        ELSE /\ Live
             /\ len(buffer) = Len(last.arg)
             /\ buffer_view(buffer) = last.arg
             /\ as_byte_slice(buffer) = last.arg

\* C2 happens: a buffer one byte short was refused.
C2_Witness ==
    /\ last.op = "with_buffer"
    /\ Len(last.arg) = size_of(T) - 1
    /\ status = "panicked"

\* C3: the address the typed views reinterpret as T is a multiple of
\* align_of(T) for every buffer a constructor returned.
C3_Aligned == Live => base % align_of(T) = 0

\* C4: new() and zeroed() give length() = size_of(T), no extension and
\* extension views of length 0; with_ext(ext_size) gives length() =
\* size_of(T) + ext_size, has_ext_buffer() true and extension views of
\* length ext_size.
C4_ExtensionShape ==
    /\ (Live /\ ctor.name \in { "new", "zeroed" }) => len(buffer) = size_of(T)
    /\ (Live /\ ctor.name = "with_ext") => len(buffer) = size_of(T) + ctor.ext
    /\ (last.op = "has_ext_buffer" /\ ctor.name \in { "new", "zeroed" }) =>
            (Live /\ last.ret = FALSE)
    /\ (last.op = "has_ext_buffer" /\ ctor.name = "with_ext") =>
            (Live /\ last.ret = TRUE)
    /\ (last.op \in { "ext_buffer", "ext_buffer_mut" } /\ ctor.name \in { "new", "zeroed" }) =>
            (Live /\ Len(last.ret) = 0)
    /\ (last.op \in { "ext_buffer", "ext_buffer_mut" } /\ ctor.name = "with_ext") =>
            (Live /\ Len(last.ret) = ctor.ext)

\* C5: for every buffer, has_ext_buffer() returns true iff length() >
\* size_of(T), and ext_buffer() is the bytes of the byte view at offsets
\* size_of(T) .. length().
C5_HasExtIffLonger ==
    /\ last.op = "has_ext_buffer" =>
            (Live /\ (last.ret <=> len(buffer) > size_of(T)))
    /\ last.op = "ext_buffer" =>
            (Live /\ last.ret = SubSeq(buffer_view(buffer), size_of(T) + 1, len(buffer)))

\* C6: after v was written through raw_mut(), the first size_of(T) bytes of
\* the byte view read as a T are v, and raw() returns v; and after bytes
\* were written through the mutable byte view, raw() reads those bytes.
C6_RoundTrip ==
    [][ /\ (last'.op = "raw_mut" /\ status' = "live") =>
                /\ len(buffer') >= size_of(T)
                /\ Decode(T, RecordRegion(buffer'), endian) = last'.arg
        /\ (last.op = "raw_mut" /\ Live /\ last'.op = "raw") =>
                (status' = "live" /\ last'.ret = last.arg)
        /\ (last.op = "as_byte_slice_mut" /\ Live /\ last'.op = "raw") =>
                /\ status' = "live"
                /\ len(buffer) >= size_of(T)
                /\ last'.ret = Decode(T, RecordRegion(buffer), endian)
      ]_vars

\* C7: zeroed() gives a buffer of exactly size_of(T) bytes, all 0, and raw()
\* then reads 0 in every field of T without a write in between.
C7_ZeroedReadsZero ==
    [][ /\ last'.op = "zeroed" =>
                /\ len(buffer') = size_of(T)
                /\ \A i \in 1 .. Len(buffer') : buffer'[i] = 0
        /\ (last.op = "zeroed" /\ last'.op = "raw") =>
                /\ status' = "live"
                /\ \A n \in FieldNames(T) : last'.ret[n] = 0
      ]_vars

\* C8: copy() and take() each return the T that raw() shows, whatever the
\* extension holds, and copy() leaves the bytes and the length as they were.
C8_CopyAndTake ==
    [][ /\ (Live /\ last'.op = "copy") =>
                /\ status' = "live"
                /\ buffer' = buffer
                /\ len(buffer) >= size_of(T)
                /\ last'.ret = Decode(T, RecordRegion(buffer), endian)
        /\ (Live /\ last'.op = "take") =>
                /\ status' = "taken"
                /\ len(buffer) >= size_of(T)
                /\ last'.ret = Decode(T, RecordRegion(buffer), endian)
      ]_vars

\* The number of elements behind the byte view.
Count == IF holder = "value" THEN 1 ELSE Len(elems)

\* C9: the byte view of one integer of type X has size_of(X) bytes, that of
\* a slice or Vec of N of them N * size_of(X) bytes, which are the elements
\* one after the other in their order; safe_ptr() is null exactly for N = 0.
C9_ByteViewLength ==
    /\ view.set =>
          /\ Len(view.val) = Count * int_size(X)
          /\ \A k \in 1 .. Count :
                IntFromBytes(SubSeq(view.val, (k - 1) * int_size(X) + 1, k * int_size(X)),
                             X, endian) = elems[k]
    /\ sptr.set => (sptr.val = 0 <=> Len(elems) = 0)
    /\ sptr.set /\ Len(elems) > 0 => sptr.val = ptr

\* C9 happens: the view of two 32-bit elements was taken.
C9_Witness ==
    /\ view.set
    /\ holder = "vec"
    /\ Len(elems) = 2
    /\ int_size(X) = 4
    /\ elems[1] # elems[2]

\* What ext_buffer() yields on buffer b.
ExtView(b) == IF ext_in_range(b, T) THEN Some(ext_buffer(b, T)) ELSE NoValue

\* What raw() may read on buffer b.
TypedView(b) == { Decode(T, bs, endian) : bs \in raw_bytes(b, T) }

\* C10: a write through ext_buffer_mut() leaves what raw() reads and the
\* first size_of(T) bytes of the byte view as they were, a write through
\* raw_mut() leaves ext_buffer() as it was, and no call on a buffer changes
\* its length().
C10_Frame ==
    [][ /\ (last'.op = "ext_buffer_mut_write" /\ status' = "live") =>
                /\ RecordRegion(buffer') = RecordRegion(buffer)
                /\ TypedView(buffer') = TypedView(buffer)
        /\ (last'.op = "raw_mut" /\ status' = "live") =>
                ExtView(buffer') = ExtView(buffer)
        /\ (Live /\ status' = "live") => len(buffer') = len(buffer)
      ]_vars

\* C10 happens: a byte of a non-empty extension was written.
C10_Witness ==
    /\ Live
    /\ last.op = "ext_buffer_mut_write"
    /\ len(buffer) > size_of(T)
====
